---- MODULE Spec2Model ----
(***************************************************************************)
(* SysV/LSB backend of the service package: flavour detection, rendering   *)
(* of the control script, Install/Uninstall of the script and its runlevel *)
(* links, the control proxy (Start/Stop/Restart) and the Run supervisor.   *)
(* Modelled from src/unnamed/part_000 (the tool-delegating variant); the   *)
(* functions shared with src/service_sysv_linux.go are line for line the   *)
(* same there.  Install and Uninstall of that simpler variant are modelled *)
(* next to them, and Install also step by step for two concurrent callers. *)
(***************************************************************************)
EXTENDS Integers, Sequences, FiniteSets, TLC

VARIABLES
    host,       \* what the probes of this host answer (files, search path)
    cfg,        \* s.Config, the service definition of the sysv object
    fs,         \* the control script and the runlevel links of cfg.Name
    last,       \* the last Install/Uninstall call: the option it saw, the
                \* filesystem it met, its I/O steps in order, its result
    cleanInstalled, \* the call before the last was an Install that succeeded
                    \* on a filesystem with no script and no link
    runPc,      \* position of Run
    sigChan,    \* the channel of Run, buffered
    notified,   \* signal.Notify has registered sigChan
    calls,      \* the callbacks Run has invoked, in order, with outcomes
    runRes,     \* what Run returned
    sigsSent,   \* number of termination signals the host has delivered
    received,   \* the signals Run has taken from sigChan
    cmdLog,     \* the requests issued to the service front-end, in order
    proxy,      \* the last control-proxy call and what it returned
    inst        \* the Install calls that run side by side: where each is,
                \* what it detected, what it returned

vars == <<host, cfg, fs, last, cleanInstalled, runPc, sigChan, notified,
          calls, runRes, sigsSent, received, cmdLog, proxy, inst>>

fsVars == <<host, cfg, fs, last, cleanInstalled, inst>>
runVars == <<runPc, sigChan, notified, calls, runRes, sigsSent, received>>
proxyVars == <<cmdLog, proxy>>

(***************************************************************************)
(* Bounds of the model.                                                    *)
(***************************************************************************)
\* termination signals the host delivers in one behaviour
MaxSignals == 4
\* requests to the service front-end in one behaviour
MaxCmds == 4

(***************************************************************************)
(* Program constants.                                                      *)
(***************************************************************************)
\* make(chan os.Signal, 3)
SigChanCap == 3

\* strings.Split(defaultStartLevels, ""), strings.Split(defaultStopLevels, "")
defaultStartLevels == <<"2", "3", "4", "5">>
defaultStopLevels == <<"0", "1", "6">>
defaultStartPriority == "50"
defaultStopPriority == "02"

Nil == "nil"
\* the process was terminated by os.Exit(1): nothing is returned
Exited == "os.Exit(1)"
errNoUserServiceSystemV == "User services are not supported on SystemV."
\* fmt.Errorf("Init already exists: %s", confPath)
errAlreadyExists == "Init already exists"

(***************************************************************************)
(* Text.  A string that reaches the script is a sequence of characters.    *)
(***************************************************************************)
\* strings.Join / the template's join: the elements with sep between them
RECURSIVE join(_, _)
join(elems, sep) ==
    IF elems = <<>> THEN <<>>
    ELSE IF Len(elems) = 1 THEN <<Head(elems)>>
    ELSE <<Head(elems)>> \o sep \o join(Tail(elems), sep)

\* strings.Replace(s, `"`, `\"`, -1)
RECURSIVE escapeQuotes(_)
escapeQuotes(s) ==
    IF s = <<>> THEN <<>>
    ELSE (IF Head(s) = "\"" THEN <<"\\", "\"">> ELSE <<Head(s)>>)
         \o escapeQuotes(Tail(s))

\* the template function cmd of tf: the value between double quotes, its
\* own double quotes escaped
cmd(s) == <<"\"">> \o escapeQuotes(s) \o <<"\"">>

(***************************************************************************)
(* The service definition.                                                 *)
(***************************************************************************)
Name == <<"s", "v", "c">>
ExecPath == <<"/", "b", "i", "n", "/", "p">>

PlainDefinition ==
    [Name |-> Name, DisplayName |-> <<"S">>, Description |-> <<"d">>,
     UserName |-> <<>>, WorkingDirectory |-> <<>>, ChRoot |-> <<>>,
     Arguments |-> <<>>]

\* every optional field set, to a value with shell metacharacters
HostileDefinition ==
    [Name |-> Name, DisplayName |-> <<"S">>, Description |-> <<"d">>,
     UserName |-> <<"u", ";", "x">>, WorkingDirectory |-> <<"/", " ", "w">>,
     ChRoot |-> <<"/", "\"", "r">>,
     Arguments |-> << <<"-", "a">>, <<"$", "x">>, <<"y", ";", "z">> >>]

Definitions == {PlainDefinition, HostileDefinition}

Configs == {[Config |-> d, UserService |-> u] : d \in Definitions, u \in BOOLEAN}

\* s.Option.bool(optionUserService, optionUserServiceDefault)
OptionUserService(c) == c.UserService

\* a mutant of configPath: the user-service option is not looked at
configPathAnyScope(c) == [cp |-> "/etc/init.d/<Name>", err |-> Nil]

configPath(c) ==
    IF OptionUserService(c) THEN [cp |-> "", err |-> errNoUserServiceSystemV]
    ELSE [cp |-> "/etc/init.d/<Name>", err |-> Nil]

(***************************************************************************)
(* The host, as the probes of the code see it.  os.Stat answers "present"  *)
(* (err == nil), "absent" (os.IsNotExist(err)) or "unreadable" (any other  *)
(* error); exec.LookPath answers found or not.                             *)
(***************************************************************************)
StatResults == {"present", "absent", "unreadable"}

HostProbes ==
    [rhFunctions : StatResults,     \* /etc/rc.d/init.d/functions
     lsbFunctions : StatResults,    \* /lib/lsb/init-functions
     startStopDaemon : BOOLEAN,     \* LookPath("start-stop-daemon")
     chkconfig : BOOLEAN,           \* LookPath("chkconfig")
     updateRcD : BOOLEAN,           \* LookPath("update-rc.d")
     rcD : {"present", "absent"},   \* /etc/rc.d/
     rc0D : {"present", "absent"}]  \* /etc/rc0.d

\* a file under /etc/rc.d/ is there only when /etc/rc.d/ is
Hosts == {h \in HostProbes : h.rhFunctions = "present" => h.rcD = "present"}

Flavours == {"redhat", "debian", "lsb"}

\* a mutant of determineDistroFlavour: start-stop-daemon is looked up before
\* the LSB function file
determineDistroFlavourDaemonFirst(h) ==
    IF h.rhFunctions = "present" THEN
        [flavour |-> "redhat", tr |-> <<"Stat rhFunctions">>]
    ELSE IF h.startStopDaemon THEN
        [flavour |-> "debian",
         tr |-> <<"Stat rhFunctions", "LookPath start-stop-daemon">>]
    ELSE IF h.lsbFunctions = "absent" THEN
        [flavour |-> Exited,
         tr |-> <<"Stat rhFunctions", "LookPath start-stop-daemon",
                  "Stat lsbFunctions", "os.Exit">>]
    ELSE
        [flavour |-> "lsb",
         tr |-> <<"Stat rhFunctions", "LookPath start-stop-daemon",
                  "Stat lsbFunctions">>]

\* determineDistroFlavour with the probes it makes, in order; the flavour is
\* Exited when it ends the process
determineDistroFlavour(h) ==
    IF h.rhFunctions = "present" THEN
        [flavour |-> "redhat", tr |-> <<"Stat rhFunctions">>]
    ELSE IF h.lsbFunctions = "absent" THEN
        [flavour |-> Exited,
         tr |-> <<"Stat rhFunctions", "Stat lsbFunctions", "os.Exit">>]
    ELSE IF h.startStopDaemon THEN
        [flavour |-> "debian",
         tr |-> <<"Stat rhFunctions", "Stat lsbFunctions",
                  "LookPath start-stop-daemon">>]
    ELSE
        [flavour |-> "lsb",
         tr |-> <<"Stat rhFunctions", "Stat lsbFunctions",
                  "LookPath start-stop-daemon">>]

(***************************************************************************)
(* The control script.  The rendered text is modelled by the flavour       *)
(* branch taken and, in template order, every place where a field of the   *)
(* definition is interpolated, with the text that reaches the script.      *)
(***************************************************************************)
Site(field, text) == [field |-> field, text |-> text]

\* {{range .Arguments}} {{.|cmd}}{{end}}
RECURSIVE ArgumentSites(_)
ArgumentSites(args) ==
    IF args = <<>> THEN <<>>
    ELSE <<Site("Arguments", cmd(Head(args)))>> \o ArgumentSites(Tail(args))

\* {{if .F}}... {{.F|cmd}}{{end}}
QuotedIfSet(field, value) ==
    IF value = <<>> THEN <<>> ELSE <<Site(field, cmd(value))>>

\* {{if .F}}...{{.F}}{{end}}
RawIfSet(field, value) ==
    IF value = <<>> THEN <<>> ELSE <<Site(field, value)>>

\* the header: chkconfig comment (redhat) or the LSB INIT INFO block
HeaderSites(c, flavour) ==
    IF flavour = "redhat" THEN
        <<Site("DisplayName", c.DisplayName),
          Site("StartLevels", join(defaultStartLevels, <<>>)),
          Site("DefaultStart", <<defaultStartPriority>>),
          Site("DefaultStop", <<defaultStopPriority>>),
          Site("Description", c.Description)>>
    ELSE
        <<Site("Name", c.Name),
          Site("StartLevels", join(defaultStartLevels, <<" ">>)),
          Site("StopLevels", join(defaultStopLevels, <<" ">>)),
          Site("DisplayName", c.DisplayName),
          Site("Description", c.Description)>>

\* CMD=, NAME=, DESC=
VariableSites(c, path) ==
    <<Site("Path", path), Site("Name", c.Name),
      Site("Description", c.Description)>>

\* start(): daemon (redhat), start-stop-daemon (debian), plain LSB
StartSites(c, flavour) ==
    IF flavour = "redhat" THEN
        RawIfSet("UserName", c.UserName) \o ArgumentSites(c.Arguments)
    ELSE IF flavour = "debian" THEN
        QuotedIfSet("ChRoot", c.ChRoot)
        \o QuotedIfSet("WorkingDirectory", c.WorkingDirectory)
        \o QuotedIfSet("UserName", c.UserName)
        \o ArgumentSites(c.Arguments)
    ELSE
        QuotedIfSet("WorkingDirectory", c.WorkingDirectory)
        \o ArgumentSites(c.Arguments)

\* template.Execute of sysvScript on the definition, path and flavour
sysvScript(c, path, flavour) ==
    [flavour |-> flavour,
     sites |-> HeaderSites(c, flavour) \o VariableSites(c, path)
               \o StartSites(c, flavour)]


(***************************************************************************)
(* The filesystem: the control script /etc/init.d/<Name> and the runlevel  *)
(* links of Name.                                                          *)
(***************************************************************************)
EmptyContent == [flavour |-> "", sites |-> <<>>]
NoFile == [exists |-> FALSE, content |-> EmptyContent, mode |-> ""]
CleanFS == [script |-> NoFile, links |-> {}]

\* a control script of the same name that this program did not write
ForeignScript ==
    [exists |-> TRUE, content |-> [flavour |-> "foreign", sites |-> <<>>],
     mode |-> "0644"]

\* the filesystem a first call can meet
InitialFS == {CleanFS, [script |-> ForeignScript, links |-> {}]}

\* fmt.Sprintf("%s/rc%s.d/S%s%s", base, i, priority, s.Name)
linkPath(base, i, kind, priority) ==
    [dir |-> base, rl |-> i, kind |-> kind, prio |-> priority]

RECURSIVE linkPaths(_, _, _, _)
linkPaths(base, levels, kind, priority) ==
    IF levels = <<>> THEN <<>>
    ELSE <<linkPath(base, Head(levels), kind, priority)>>
         \o linkPaths(base, Tail(levels), kind, priority)

startLinks(base) == linkPaths(base, defaultStartLevels, "S", defaultStartPriority)
stopLinks(base) == linkPaths(base, defaultStopLevels, "K", defaultStopPriority)

Range(seq) == {seq[i] : i \in 1..Len(seq)}

(***************************************************************************)
(* Faults.  A call meets at most one injected failure: the step named      *)
(* fails when the call reaches it.  A step also fails on its own when the  *)
(* filesystem says so (a link that is already there, a file that is not).  *)
(***************************************************************************)
NoFault == [step |-> "none", kind |-> "", rl |-> ""]
StepFault(step) == [step |-> step, kind |-> "", rl |-> ""]
LinkFault(kind, rl) == [step |-> "link", kind |-> kind, rl |-> rl]

\* the steps of manageSymlinks that can fail
LinkFaults ==
    {StepFault("cmd.Run")}
    \cup {LinkFault("S", rl) : rl \in Range(defaultStartLevels)}
    \cup {LinkFault("K", rl) : rl \in Range(defaultStopLevels)}

\* the steps of Install, and of Uninstall, that can fail
InstallFaults ==
    {NoFault} \cup LinkFaults
    \cup {StepFault(s) : s \in {"execPath", "Create", "Execute", "Chmod"}}

UninstallFaults == {NoFault, StepFault("Remove confPath")} \cup LinkFaults

FaultsLink(fault, p) ==
    fault.step = "link" /\ fault.kind = p.kind /\ fault.rl = p.rl

\* fmt.Errorf("Failed to create startup link %s: %s", path, err) and the like
linkError(install, what) ==
    IF install THEN
        IF what = "startup" THEN "Failed to create startup link"
        ELSE "Failed to create shutdown link"
    ELSE
        IF what = "startup" THEN "Failed to remove startup link"
        ELSE "Failed to remove shutdown link"

\* one of the two loops of manageSymlinks: every path in order, returning at
\* the first os.Symlink or os.Remove that fails
RECURSIVE linkLoop(_, _, _, _, _, _)
linkLoop(paths, install, links, fault, tr, what) ==
    IF paths = <<>> THEN [links |-> links, res |-> Nil, tr |-> tr]
    ELSE
        LET p == Head(paths) IN
        IF install THEN
            IF p \in links \/ FaultsLink(fault, p) THEN
                [links |-> links, res |-> linkError(install, what),
                 tr |-> Append(tr, "Symlink failed")]
            ELSE linkLoop(Tail(paths), install, links \cup {p}, fault,
                          Append(tr, "Symlink"), what)
        ELSE
            IF p \notin links \/ FaultsLink(fault, p) THEN
                [links |-> links, res |-> linkError(install, what),
                 tr |-> Append(tr, "Remove link failed")]
            ELSE linkLoop(Tail(paths), install, links \ {p}, fault,
                          Append(tr, "Remove link"), what)

\* the native tool manageSymlinks picks: chkconfig first, then update-rc.d
linkTool(h) ==
    IF h.chkconfig THEN "chkconfig"
    ELSE IF h.updateRcD THEN "update-rc.d"
    ELSE "none"

linkToolProbes(h) ==
    IF h.chkconfig THEN <<"LookPath chkconfig">>
    ELSE <<"LookPath chkconfig", "LookPath update-rc.d">>

\* cmd.Run() of the native tool.  The tool is a program of the host: when it
\* succeeds, --add / defaults leaves the links of Name in the tool's runlevel
\* directories, --del / remove leaves no link of Name.
toolBase(tool) == IF tool = "chkconfig" THEN "/etc/rc.d" ELSE "/etc"

\* exec.Command("chkconfig", ...) or exec.Command("update-rc.d", ...)
toolCommand(tool) ==
    IF tool = "chkconfig" THEN "Command chkconfig" ELSE "Command update-rc.d"

runLinkTool(tool, install, links, fault) ==
    IF fault.step = "cmd.Run" THEN
        [links |-> links, res |-> "Failed to run",
         tr |-> <<toolCommand(tool), "cmd.Run failed">>]
    ELSE IF install THEN
        [links |-> links \cup Range(startLinks(toolBase(tool)))
                         \cup Range(stopLinks(toolBase(tool))),
         res |-> Nil, tr |-> <<toolCommand(tool), "cmd.Run">>]
    ELSE [links |-> {}, res |-> Nil, tr |-> <<toolCommand(tool), "cmd.Run">>]

\* a mutant of manualLinks: the links always go under /etc
manualLinksFlatBase(h, install, links, fault) ==
    IF h.rcD /= "present" /\ h.rc0D = "absent" THEN
        [links |-> links, res |-> Exited,
         tr |-> <<"Stat /etc/rc.d/", "Stat /etc/rc0.d", "os.Exit">>]
    ELSE
        LET base == "/etc"
            probes == IF h.rcD = "present" THEN <<"Stat /etc/rc.d/">>
                      ELSE <<"Stat /etc/rc.d/", "Stat /etc/rc0.d">>
            up == linkLoop(startLinks(base), install, links, fault, probes,
                           "startup")
        IN  IF up.res /= Nil THEN up
            ELSE linkLoop(stopLinks(base), install, up.links, fault, up.tr,
                          "shutdown")

\* the manual branch of manageSymlinks
manualLinks(h, install, links, fault) ==
    IF h.rcD /= "present" /\ h.rc0D = "absent" THEN
        [links |-> links, res |-> Exited,
         tr |-> <<"Stat /etc/rc.d/", "Stat /etc/rc0.d", "os.Exit">>]
    ELSE
        LET base == IF h.rcD = "present" THEN "/etc/rc.d" ELSE "/etc"
            probes == IF h.rcD = "present" THEN <<"Stat /etc/rc.d/">>
                      ELSE <<"Stat /etc/rc.d/", "Stat /etc/rc0.d">>
            up == linkLoop(startLinks(base), install, links, fault, probes,
                           "startup")
        IN  IF up.res /= Nil THEN up
            ELSE linkLoop(stopLinks(base), install, up.links, fault, up.tr,
                          "shutdown")

\* manageSymlinks(confPath, install) on the links of the filesystem
manageSymlinks(h, install, links, fault) ==
    LET tool == linkTool(h) IN
    IF tool /= "none" THEN
        LET r == runLinkTool(tool, install, links, fault)
        IN  [r EXCEPT !.tr = linkToolProbes(h) \o r.tr]
    ELSE
        LET r == manualLinks(h, install, links, fault)
        IN  [r EXCEPT !.tr = linkToolProbes(h) \o r.tr]


(***************************************************************************)
(* Install and Uninstall.  Each returns the filesystem it leaves, what the *)
(* caller gets (Nil, an error, or Exited when the process was ended), the  *)
(* I/O steps it made in order, and the flavour it detected.                *)
(***************************************************************************)
Outcome(f, res, tr, flavour) ==
    [fs |-> f, res |-> res, tr |-> tr, flavour |-> flavour]

\* a mutant of scriptExists: the check for an existing script never fires
scriptNeverThere(f) == FALSE

\* os.Stat(confPath) answers err == nil: the control script is there
scriptExists(f) == f.script.exists

\* a mutant of writeAndLink: the links are made before the script is created
writeAndLinkLinksFirst(f, h, c, fault, flavour, tr) ==
    LET m == manageSymlinks(h, TRUE, f.links, fault)
        linked == [f EXCEPT !.links = m.links]
    IN
    IF m.res /= Nil THEN Outcome(linked, m.res, tr \o m.tr, flavour)
    ELSE IF fault.step = "Create" THEN
        Outcome(linked, "Create error",
                tr \o m.tr \o <<"Create confPath failed">>, flavour)
    ELSE
    LET created == [exists |-> TRUE, content |-> EmptyContent, mode |-> "0666"]
        tr1 == tr \o m.tr \o <<"Create confPath">>
    IN
    IF fault.step = "Execute" THEN
        Outcome([linked EXCEPT !.script = created], "Execute error",
                Append(tr1, "Execute failed"), flavour)
    ELSE
    LET written == [created EXCEPT
                      !.content = sysvScript(c.Config, ExecPath, flavour)]
        tr2 == Append(tr1, "Execute")
    IN
    IF fault.step = "Chmod" THEN
        Outcome([linked EXCEPT !.script = written], "Chmod error",
                Append(tr2, "Chmod confPath failed"), flavour)
    ELSE Outcome([linked EXCEPT !.script = [written EXCEPT !.mode = "0755"]],
                 Nil, Append(tr2, "Chmod confPath"), flavour)

\* a mutant of writeAndLink: a step that fails puts the filesystem back as
\* Install met it
writeAndLinkRollsBack(f, h, c, fault, flavour, tr) ==
    IF fault.step = "Create" THEN
        Outcome(f, "Create error", Append(tr, "Create confPath failed"), flavour)
    ELSE
    LET created == [exists |-> TRUE, content |-> EmptyContent, mode |-> "0666"]
        tr1 == Append(tr, "Create confPath")
    IN
    IF fault.step = "Execute" THEN
        Outcome(f, "Execute error", Append(tr1, "Execute failed"), flavour)
    ELSE
    LET written == [created EXCEPT
                      !.content = sysvScript(c.Config, ExecPath, flavour)]
        tr2 == Append(tr1, "Execute")
    IN
    IF fault.step = "Chmod" THEN
        Outcome(f, "Chmod error", Append(tr2, "Chmod confPath failed"), flavour)
    ELSE
    LET m == manageSymlinks(h, TRUE, f.links, fault)
    IN  IF m.res \notin {Nil, Exited} THEN
            Outcome(f, m.res, Append(tr2, "Chmod confPath") \o m.tr, flavour)
        ELSE
            Outcome([script |-> [written EXCEPT !.mode = "0755"],
                     links |-> m.links],
                    m.res, Append(tr2, "Chmod confPath") \o m.tr, flavour)

\* Install from os.Create on: the script is written, made executable, and
\* the links are made.  A failed Execute leaves the file as created.
writeAndLink(f, h, c, fault, flavour, tr) ==
    IF fault.step = "Create" THEN
        Outcome(f, "Create error", Append(tr, "Create confPath failed"), flavour)
    ELSE
    LET created == [exists |-> TRUE, content |-> EmptyContent, mode |-> "0666"]
        tr1 == Append(tr, "Create confPath")
    IN
    IF fault.step = "Execute" THEN
        Outcome([f EXCEPT !.script = created], "Execute error",
                Append(tr1, "Execute failed"), flavour)
    ELSE
    LET written == [created EXCEPT
                      !.content = sysvScript(c.Config, ExecPath, flavour)]
        tr2 == Append(tr1, "Execute")
    IN
    IF fault.step = "Chmod" THEN
        Outcome([f EXCEPT !.script = written], "Chmod error",
                Append(tr2, "Chmod confPath failed"), flavour)
    ELSE
    LET m == manageSymlinks(h, TRUE, f.links, fault)
    IN  Outcome([script |-> [written EXCEPT !.mode = "0755"], links |-> m.links],
                m.res, Append(tr2, "Chmod confPath") \o m.tr, flavour)

\* a mutant of Install: the flavour is detected after the script file was
\* created
InstallDetectsAfterCreate(f, h, c, fault) ==
    IF configPath(c).err /= Nil THEN Outcome(f, configPath(c).err, <<>>, "")
    ELSE IF fault.step = "execPath" THEN
        Outcome(f, "execPath error", <<"execPath failed">>, "")
    ELSE IF scriptExists(f) THEN
        Outcome(f, errAlreadyExists, <<"execPath", "Stat confPath">>, "")
    ELSE IF fault.step = "Create" THEN
        Outcome(f, "Create error",
                <<"execPath", "Stat confPath", "Create confPath failed">>, "")
    ELSE
    LET d == determineDistroFlavour(h)
        tr == <<"execPath", "Stat confPath", "Create confPath">> \o d.tr
        created == [exists |-> TRUE, content |-> EmptyContent, mode |-> "0666"]
    IN
    IF d.flavour = Exited THEN
        Outcome([f EXCEPT !.script = created], Exited, tr, "")
    ELSE
    LET r == writeAndLink(f, h, c, fault, d.flavour,
                          <<"execPath">> \o d.tr \o <<"Stat confPath">>)
    IN  r

Install(f, h, c, fault) ==
    IF configPath(c).err /= Nil THEN Outcome(f, configPath(c).err, <<>>, "")
    ELSE IF fault.step = "execPath" THEN
        Outcome(f, "execPath error", <<"execPath failed">>, "")
    ELSE
    LET d == determineDistroFlavour(h)
        tr == <<"execPath">> \o d.tr
    IN
    IF d.flavour = Exited THEN Outcome(f, Exited, tr, "")
    ELSE IF scriptExists(f) THEN
        Outcome(f, errAlreadyExists, Append(tr, "Stat confPath"), d.flavour)
    ELSE writeAndLink(f, h, c, fault, d.flavour, Append(tr, "Stat confPath"))

\* os.Remove(cp)
removeScript(f, fault, tr) ==
    IF ~f.script.exists \/ fault.step = "Remove confPath" THEN
        Outcome(f, "Remove error", Append(tr, "Remove confPath failed"), "")
    ELSE Outcome([f EXCEPT !.script = NoFile], Nil,
                 Append(tr, "Remove confPath"), "")

\* a mutant of Uninstall: the links are left alone
UninstallScriptOnly(f, h, c, fault) ==
    IF configPath(c).err /= Nil THEN Outcome(f, configPath(c).err, <<>>, "")
    ELSE removeScript(f, fault, <<>>)

\* a mutant of Uninstall: a failure of link removal does not stop it
UninstallIgnoresLinkError(f, h, c, fault) ==
    IF configPath(c).err /= Nil THEN Outcome(f, configPath(c).err, <<>>, "")
    ELSE
    LET m == manageSymlinks(h, FALSE, f.links, fault)
    IN  IF m.res = Exited THEN Outcome([f EXCEPT !.links = m.links], Exited, m.tr, "")
        ELSE removeScript([f EXCEPT !.links = m.links], fault, m.tr)

\* a mutant of Uninstall: the script is removed before the links
UninstallScriptFirst(f, h, c, fault) ==
    IF configPath(c).err /= Nil THEN Outcome(f, configPath(c).err, <<>>, "")
    ELSE
    LET r == removeScript(f, fault, <<>>)
        m == manageSymlinks(h, FALSE, f.links, fault)
    IN  IF r.res /= Nil THEN r
        ELSE Outcome([r.fs EXCEPT !.links = m.links], m.res, r.tr \o m.tr, "")

Uninstall(f, h, c, fault) ==
    IF configPath(c).err /= Nil THEN Outcome(f, configPath(c).err, <<>>, "")
    ELSE
    LET m == manageSymlinks(h, FALSE, f.links, fault)
    IN  IF m.res /= Nil THEN Outcome([f EXCEPT !.links = m.links], m.res, m.tr, "")
        ELSE removeScript([f EXCEPT !.links = m.links], fault, m.tr)

(***************************************************************************)
(* Calls of Install and Uninstall on the sysv object.                      *)
(***************************************************************************)
\* the callers that may run Install at the same time
Procs == {1, 2}

Installer(pc, flavour, todo, res, created) ==
    [pc |-> pc, flavour |-> flavour, todo |-> todo, res |-> res,
     created |-> created]

NotCalled == Installer("idle", "", <<>>, Nil, FALSE)
NoInstallers == [p \in Procs |-> NotCalled]

NoCall == [op |-> "none", userService |-> FALSE, res |-> Nil, tr |-> <<>>,
           flavour |-> "", pre |-> CleanFS]

\* the call before the one being made succeeded as an Install on CleanFS
LastWasCleanInstall ==
    last.op = "Install" /\ last.res = Nil /\ last.pre = CleanFS

\* s.Install(), with the failure it meets, if any
InstallCall ==
    \E fault \in InstallFaults :
        LET r == Install(fs, host, cfg, fault) IN
        /\ fs' = r.fs
        /\ last' = [op |-> "Install", userService |-> cfg.UserService,
                    res |-> r.res, tr |-> r.tr, flavour |-> r.flavour,
                    pre |-> fs]
        /\ cleanInstalled' = LastWasCleanInstall
        /\ UNCHANGED <<host, cfg, inst>>
        /\ UNCHANGED runVars
        /\ UNCHANGED proxyVars

\* s.Uninstall(), with the failure it meets, if any
UninstallCall ==
    \E fault \in UninstallFaults :
        LET r == Uninstall(fs, host, cfg, fault) IN
        /\ fs' = r.fs
        /\ last' = [op |-> "Uninstall", userService |-> cfg.UserService,
                    res |-> r.res, tr |-> r.tr, flavour |-> r.flavour,
                    pre |-> fs]
        /\ cleanInstalled' = LastWasCleanInstall
        /\ UNCHANGED <<host, cfg, inst>>
        /\ UNCHANGED runVars
        /\ UNCHANGED proxyVars

\* between two calls the caller sets or clears the user-service option of
\* the Config the sysv object points to
SetOption ==
    /\ cfg' = [cfg EXCEPT !.UserService = ~cfg.UserService]
    /\ UNCHANGED <<host, fs, last, cleanInstalled, inst>>
    /\ UNCHANGED runVars
    /\ UNCHANGED proxyVars

(***************************************************************************)
(* The simpler variant, src/service_sysv_linux.go: Install makes the seven *)
(* links under /etc itself and goes on after a link that fails; Uninstall  *)
(* removes the control script.  configPath, determineDistroFlavour and the *)
(* body of the script are the same as above; the header has fixed          *)
(* runlevels.                                                              *)
(***************************************************************************)
\* the header of the simpler template
simpleHeaderSites(c, path, flavour) ==
    IF flavour = "redhat" THEN
        <<Site("DisplayName", c.DisplayName),
          Site("Description", c.Description)>>
    ELSE
        <<Site("Path", path), Site("DisplayName", c.DisplayName),
          Site("Description", c.Description)>>

simpleSysvScript(c, path, flavour) ==
    [flavour |-> flavour,
     sites |-> simpleHeaderSites(c, path, flavour) \o VariableSites(c, path)
               \o StartSites(c, flavour)]

\* for _, i := range [...]string{...} { if err = os.Symlink(...); err != nil
\* { continue } }
RECURSIVE simpleLinkLoop(_, _, _, _)
simpleLinkLoop(paths, links, fault, tr) ==
    IF paths = <<>> THEN [links |-> links, tr |-> tr]
    ELSE
        LET p == Head(paths) IN
        IF p \in links \/ FaultsLink(fault, p) THEN
            simpleLinkLoop(Tail(paths), links, fault,
                           Append(tr, "Symlink failed"))
        ELSE simpleLinkLoop(Tail(paths), links \cup {p}, fault,
                            Append(tr, "Symlink"))

\* "/etc/rc"+i+".d/S50"+s.Name, "/etc/rc"+i+".d/K02"+s.Name
simpleStartLinks == linkPaths("/etc", <<"2", "3", "4", "5">>, "S", "50")
simpleStopLinks == linkPaths("/etc", <<"0", "1", "6">>, "K", "02")

\* Install of the simpler variant
simpleInstall(f, h, c, fault) ==
    IF configPath(c).err /= Nil THEN Outcome(f, configPath(c).err, <<>>, "")
    ELSE IF fault.step = "execPath" THEN
        Outcome(f, "execPath error", <<"execPath failed">>, "")
    ELSE
    LET d == determineDistroFlavour(h)
        tr == <<"execPath">> \o d.tr
    IN
    IF d.flavour = Exited THEN Outcome(f, Exited, tr, "")
    ELSE IF scriptExists(f) THEN
        Outcome(f, errAlreadyExists, Append(tr, "Stat confPath"), d.flavour)
    ELSE IF fault.step = "Create" THEN
        Outcome(f, "Create error",
                tr \o <<"Stat confPath", "Create confPath failed">>, d.flavour)
    ELSE
    LET created == [exists |-> TRUE, content |-> EmptyContent, mode |-> "0666"]
        tr1 == tr \o <<"Stat confPath", "Create confPath">>
    IN
    IF fault.step = "Execute" THEN
        Outcome([f EXCEPT !.script = created], "Execute error",
                Append(tr1, "Execute failed"), d.flavour)
    ELSE
    LET written == [created EXCEPT
                      !.content = simpleSysvScript(c.Config, ExecPath, d.flavour)]
        tr2 == Append(tr1, "Execute")
    IN
    IF fault.step = "Chmod" THEN
        Outcome([f EXCEPT !.script = written], "Chmod error",
                Append(tr2, "Chmod confPath failed"), d.flavour)
    ELSE
    LET up == simpleLinkLoop(simpleStartLinks, f.links, fault,
                             Append(tr2, "Chmod confPath"))
        down == simpleLinkLoop(simpleStopLinks, up.links, fault, up.tr)
    IN  Outcome([script |-> [written EXCEPT !.mode = "0755"],
                 links |-> down.links], Nil, down.tr, d.flavour)

\* Uninstall of the simpler variant: os.Remove(cp) and nothing else
simpleUninstall(f, h, c, fault) ==
    IF configPath(c).err /= Nil THEN Outcome(f, configPath(c).err, <<>>, "")
    ELSE removeScript(f, fault, <<>>)

\* the steps of the simpler Install, and Uninstall, that can fail
simpleInstallFaults ==
    {NoFault}
    \cup {StepFault(s) : s \in {"execPath", "Create", "Execute", "Chmod"}}
    \cup {LinkFault("S", rl) : rl \in {"2", "3", "4", "5"}}
    \cup {LinkFault("K", rl) : rl \in {"0", "1", "6"}}

simpleUninstallFaults == {NoFault, StepFault("Remove confPath")}

simpleInstallCall ==
    \E fault \in simpleInstallFaults :
        LET r == simpleInstall(fs, host, cfg, fault) IN
        /\ fs' = r.fs
        /\ last' = [op |-> "Install", userService |-> cfg.UserService,
                    res |-> r.res, tr |-> r.tr, flavour |-> r.flavour,
                    pre |-> fs]
        /\ cleanInstalled' = LastWasCleanInstall
        /\ UNCHANGED <<host, cfg, inst>>
        /\ UNCHANGED runVars
        /\ UNCHANGED proxyVars

simpleUninstallCall ==
    \E fault \in simpleUninstallFaults :
        LET r == simpleUninstall(fs, host, cfg, fault) IN
        /\ fs' = r.fs
        /\ last' = [op |-> "Uninstall", userService |-> cfg.UserService,
                    res |-> r.res, tr |-> r.tr, flavour |-> r.flavour,
                    pre |-> fs]
        /\ cleanInstalled' = LastWasCleanInstall
        /\ UNCHANGED <<host, cfg, inst>>
        /\ UNCHANGED runVars
        /\ UNCHANGED proxyVars

(***************************************************************************)
(* Install called by two callers at the same time.  Each call goes through *)
(* its steps on the shared filesystem one at a time; a step is one system  *)
(* call (or one run of the link tool).  No step meets a failure of its     *)
(* own.                                                                    *)
(***************************************************************************)
Done(p, res) == [inst EXCEPT ![p].pc = "done", ![p].res = res]

\* configPath, execPath, determineDistroFlavour, then os.Stat(confPath)
InstallStat(p) ==
    /\ inst[p].pc = "idle"
    /\ LET d == determineDistroFlavour(host) IN
       inst' = IF configPath(cfg).err /= Nil THEN Done(p, configPath(cfg).err)
               ELSE IF d.flavour = Exited THEN Done(p, Exited)
               ELSE IF scriptExists(fs) THEN Done(p, errAlreadyExists)
               ELSE [inst EXCEPT ![p].pc = "create", ![p].flavour = d.flavour]
    /\ UNCHANGED <<host, cfg, fs, last, cleanInstalled>>
    /\ UNCHANGED runVars
    /\ UNCHANGED proxyVars

\* os.Create(confPath): the file is created, or truncated when it is there
InstallCreate(p) ==
    /\ inst[p].pc = "create"
    /\ fs' = [fs EXCEPT !.script =
                [exists |-> TRUE, content |-> EmptyContent,
                 mode |-> IF fs.script.exists THEN fs.script.mode ELSE "0666"]]
    /\ inst' = [inst EXCEPT ![p].pc = "execute", ![p].created = TRUE]
    /\ UNCHANGED <<host, cfg, last, cleanInstalled>>
    /\ UNCHANGED runVars
    /\ UNCHANGED proxyVars

\* template ... Execute(f, to)
InstallExecute(p) ==
    /\ inst[p].pc = "execute"
    /\ fs' = [fs EXCEPT !.script.content =
                sysvScript(cfg.Config, ExecPath, inst[p].flavour)]
    /\ inst' = [inst EXCEPT ![p].pc = "chmod"]
    /\ UNCHANGED <<host, cfg, last, cleanInstalled>>
    /\ UNCHANGED runVars
    /\ UNCHANGED proxyVars

\* os.Chmod(confPath, 0755), then manageSymlinks up to its choice of method
InstallChmod(p) ==
    /\ inst[p].pc = "chmod"
    /\ fs' = [fs EXCEPT !.script.mode = "0755"]
    /\ inst' =
         IF linkTool(host) /= "none" THEN [inst EXCEPT ![p].pc = "tool"]
         ELSE IF host.rcD /= "present" /\ host.rc0D = "absent"
         THEN Done(p, Exited)
         ELSE LET base == IF host.rcD = "present" THEN "/etc/rc.d" ELSE "/etc"
              IN  [inst EXCEPT ![p].pc = "links",
                               ![p].todo = startLinks(base) \o stopLinks(base)]
    /\ UNCHANGED <<host, cfg, last, cleanInstalled>>
    /\ UNCHANGED runVars
    /\ UNCHANGED proxyVars

\* cmd.Run() of chkconfig --add or update-rc.d defaults
InstallRunTool(p) ==
    /\ inst[p].pc = "tool"
    /\ LET r == runLinkTool(linkTool(host), TRUE, fs.links, NoFault) IN
       /\ fs' = [fs EXCEPT !.links = r.links]
       /\ inst' = Done(p, r.res)
    /\ UNCHANGED <<host, cfg, last, cleanInstalled>>
    /\ UNCHANGED runVars
    /\ UNCHANGED proxyVars

\* one os.Symlink of the two loops of manageSymlinks
InstallSymlink(p) ==
    /\ inst[p].pc = "links"
    /\ LET path == Head(inst[p].todo)
           rest == Tail(inst[p].todo)
       IN  IF path \in fs.links THEN
               /\ inst' = Done(p, linkError(TRUE, IF path.kind = "S"
                                                  THEN "startup"
                                                  ELSE "shutdown"))
               /\ UNCHANGED fs
           ELSE
               /\ fs' = [fs EXCEPT !.links = fs.links \cup {path}]
               /\ inst' = IF rest = <<>> THEN Done(p, Nil)
                          ELSE [inst EXCEPT ![p].todo = rest]
    /\ UNCHANGED <<host, cfg, last, cleanInstalled>>
    /\ UNCHANGED runVars
    /\ UNCHANGED proxyVars

(***************************************************************************)
(* What a callback of the embedded program, or a request to the service    *)
(* front-end, can answer: nil or an error.                                 *)
(***************************************************************************)
Outcomes == {Nil, "errA", "errB"}

Signals == {"SIGTERM", "os.Interrupt"}

(***************************************************************************)
(* Run, one action per step.                                               *)
(***************************************************************************)
Called(cb, e) == [cb |-> cb, res |-> e]

\* a mutant of RunStart: the failure of Start is not returned
RunStartKeepsGoing(e) ==
    /\ runPc = "idle"
    /\ calls' = Append(calls, Called("Start", e))
    /\ runPc' = "notify"
    /\ UNCHANGED <<sigChan, notified, runRes, sigsSent, received>>
    /\ UNCHANGED fsVars
    /\ UNCHANGED proxyVars

\* err = s.i.Start(s); if err != nil { return err }
RunStart(e) ==
    /\ runPc = "idle"
    /\ calls' = Append(calls, Called("Start", e))
    /\ IF e /= Nil
       THEN runPc' = "returned" /\ runRes' = e
       ELSE runPc' = "notify" /\ UNCHANGED runRes
    /\ UNCHANGED <<sigChan, notified, sigsSent, received>>
    /\ UNCHANGED fsVars
    /\ UNCHANGED proxyVars

\* sigChan := make(chan os.Signal, 3); signal.Notify(sigChan, ...)
RunNotify ==
    /\ runPc = "notify"
    /\ sigChan' = <<>>
    /\ notified' = TRUE
    /\ runPc' = "waiting"
    /\ UNCHANGED <<calls, runRes, sigsSent, received>>
    /\ UNCHANGED fsVars
    /\ UNCHANGED proxyVars

\* a mutant of Signal: a signal that finds the buffer full pushes the oldest
\* one out
SignalOverwritesOldest(sig) ==
    /\ notified
    /\ sigsSent < MaxSignals
    /\ sigsSent' = sigsSent + 1
    /\ sigChan' = IF Len(sigChan) < SigChanCap THEN Append(sigChan, sig)
                  ELSE Append(Tail(sigChan), sig)
    /\ UNCHANGED <<runPc, notified, calls, runRes, received>>
    /\ UNCHANGED fsVars
    /\ UNCHANGED proxyVars

\* the host delivers SIGTERM or an interrupt: package signal sends it to the
\* registered channel without blocking, and drops it when the buffer is full
Signal(sig) ==
    /\ notified
    /\ sigsSent < MaxSignals
    /\ sigsSent' = sigsSent + 1
    /\ sigChan' = IF Len(sigChan) < SigChanCap THEN Append(sigChan, sig)
                  ELSE sigChan
    /\ UNCHANGED <<runPc, notified, calls, runRes, received>>
    /\ UNCHANGED fsVars
    /\ UNCHANGED proxyVars

\* <-sigChan
RunReceive ==
    /\ runPc = "waiting"
    /\ sigChan /= <<>>
    /\ received' = Append(received, Head(sigChan))
    /\ sigChan' = Tail(sigChan)
    /\ runPc' = "stopping"
    /\ UNCHANGED <<notified, calls, runRes, sigsSent>>
    /\ UNCHANGED fsVars
    /\ UNCHANGED proxyVars

\* return s.i.Stop(s)
RunStop(e) ==
    /\ runPc = "stopping"
    /\ calls' = Append(calls, Called("Stop", e))
    /\ runRes' = e
    /\ runPc' = "returned"
    /\ UNCHANGED <<sigChan, notified, sigsSent, received>>
    /\ UNCHANGED fsVars
    /\ UNCHANGED proxyVars

(***************************************************************************)
(* The control proxy: Start, Stop, Restart.                                *)
(***************************************************************************)
\* run("service", s.Name, verb): the request is issued and answers e
run(log, verb, e) == Append(log, [command |-> "service", verb |-> verb, res |-> e])

Start(e) ==
    /\ Len(cmdLog) < MaxCmds
    /\ cmdLog' = run(cmdLog, "start", e)
    /\ proxy' = [op |-> "Start", res |-> e, from |-> Len(cmdLog)]
    /\ UNCHANGED fsVars
    /\ UNCHANGED runVars

Stop(e) ==
    /\ Len(cmdLog) < MaxCmds
    /\ cmdLog' = run(cmdLog, "stop", e)
    /\ proxy' = [op |-> "Stop", res |-> e, from |-> Len(cmdLog)]
    /\ UNCHANGED fsVars
    /\ UNCHANGED runVars

\* a mutant of Restart: the failure of Stop does not abort
RestartIgnoresStop(e1, e2) ==
    /\ Len(cmdLog) + 1 < MaxCmds
    /\ cmdLog' = run(run(cmdLog, "stop", e1), "start", e2)
    /\ proxy' = [op |-> "Restart", res |-> e2, from |-> Len(cmdLog)]
    /\ UNCHANGED fsVars
    /\ UNCHANGED runVars

\* err := s.Stop(); if err != nil { return err }; Sleep; return s.Start()
Restart(e1, e2) ==
    /\ Len(cmdLog) + 1 < MaxCmds
    /\ IF e1 /= Nil
       THEN /\ cmdLog' = run(cmdLog, "stop", e1)
            /\ proxy' = [op |-> "Restart", res |-> e1, from |-> Len(cmdLog)]
       ELSE /\ cmdLog' = run(run(cmdLog, "stop", e1), "start", e2)
            /\ proxy' = [op |-> "Restart", res |-> e2, from |-> Len(cmdLog)]
    /\ UNCHANGED fsVars
    /\ UNCHANGED runVars

(***************************************************************************)
(* Specifications.                                                         *)
(***************************************************************************)
RunIdle ==
    /\ runPc = "idle" /\ sigChan = <<>> /\ notified = FALSE /\ calls = <<>>
    /\ runRes = Nil /\ sigsSent = 0 /\ received = <<>>

ProxyIdle == cmdLog = <<>> /\ proxy = [op |-> "none", res |-> Nil, from |-> 0]

\* a Debian-like host with no link tool
PlainHost ==
    [rhFunctions |-> "absent", lsbFunctions |-> "present",
     startStopDaemon |-> TRUE, chkconfig |-> FALSE, updateRcD |-> FALSE,
     rcD |-> "absent", rc0D |-> "present"]

FsIdle ==
    /\ host = PlainHost
    /\ cfg = [Config |-> PlainDefinition, UserService |-> FALSE]
    /\ fs = CleanFS
    /\ last = NoCall
    /\ cleanInstalled = FALSE
    /\ inst = NoInstallers

\* Install and Uninstall, on every host and definition
Init ==
    /\ host \in Hosts
    /\ cfg \in Configs
    /\ fs \in InitialFS
    /\ last = NoCall
    /\ cleanInstalled = FALSE
    /\ inst = NoInstallers
    /\ RunIdle
    /\ ProxyIdle

Next == InstallCall \/ UninstallCall \/ SetOption

Spec == Init /\ [][Next]_vars

\* the Run supervisor and the signals of the host
InitRun == FsIdle /\ RunIdle /\ ProxyIdle

NextRun ==
    \/ \E e \in Outcomes : RunStart(e)
    \/ RunNotify
    \/ \E sig \in Signals : Signal(sig)
    \/ RunReceive
    \/ \E e \in Outcomes : RunStop(e)

SpecRun == InitRun /\ [][NextRun]_vars

\* Run is sequential code: a step that can be taken is taken
FairSpecRun ==
    /\ SpecRun
    /\ WF_vars(RunNotify)
    /\ WF_vars(RunReceive)
    /\ WF_vars(\E e \in Outcomes : RunStop(e))

\* the control proxy
InitProxy == FsIdle /\ RunIdle /\ ProxyIdle

NextProxy ==
    \/ \E e \in Outcomes : Start(e)
    \/ \E e \in Outcomes : Stop(e)
    \/ \E e1, e2 \in Outcomes : Restart(e1, e2)

SpecProxy == InitProxy /\ [][NextProxy]_vars

\* the simpler variant: the probes it never makes are left out of the host
SimpleHosts ==
    {h \in Hosts : ~h.chkconfig /\ ~h.updateRcD /\ h.rc0D = "present"}

InitSimple ==
    /\ host \in SimpleHosts
    /\ cfg \in Configs
    /\ fs \in InitialFS
    /\ last = NoCall
    /\ cleanInstalled = FALSE
    /\ inst = NoInstallers
    /\ RunIdle
    /\ ProxyIdle

NextSimple == simpleInstallCall \/ simpleUninstallCall \/ SetOption

SpecSimple == InitSimple /\ [][NextSimple]_vars

\* two Install calls side by side, on a host where no step ends the process
RaceHosts ==
    {h \in Hosts :
        /\ h.rhFunctions /= "unreadable" /\ h.lsbFunctions = "present"
        /\ h.chkconfig \/ h.updateRcD \/ h.rcD = "present"
           \/ h.rc0D = "present"}

InitRace ==
    /\ host \in RaceHosts
    /\ cfg \in {c \in Configs : ~c.UserService}
    /\ fs = CleanFS
    /\ last = NoCall
    /\ cleanInstalled = FALSE
    /\ inst = NoInstallers
    /\ RunIdle
    /\ ProxyIdle

NextRace ==
    \E p \in Procs :
        \/ InstallStat(p)
        \/ InstallCreate(p)
        \/ InstallExecute(p)
        \/ InstallChmod(p)
        \/ InstallRunTool(p)
        \/ InstallSymlink(p)

SpecRace == InitRace /\ [][NextRace]_vars


(***************************************************************************)
(* Properties.                                                             *)
(***************************************************************************)
StopCalls == {i \in 1..Len(calls) : calls[i].cb = "Stop"}
StartFailed == Len(calls) >= 1 /\ calls[1].res /= Nil
StartSucceeded == Len(calls) >= 1 /\ calls[1].res = Nil

C1_Safety ==
    /\ Len(calls) >= 1 => calls[1].cb = "Start"
    /\ StartFailed =>
          /\ StopCalls = {}
          /\ runPc = "returned"
          /\ runRes = calls[1].res
    /\ Cardinality(StopCalls) <= 1
    /\ StopCalls /= {} =>
          /\ StartSucceeded
          /\ Len(received) = 1
          /\ runPc = "returned"
          /\ runRes = calls[Len(calls)].res
    /\ (runPc = "returned" /\ StartSucceeded) => StopCalls = {2}

\* C1: when the Start callback fails, Run returns that failure and Stop is
\* never invoked; when Start succeeds and a termination signal is then
\* delivered, Stop is invoked exactly once and Run returns its outcome.
C1_RunSupervisor ==
    /\ []C1_Safety
    /\ (sigsSent > 0) ~>
          (runPc = "returned" /\ StopCalls = {2} /\ runRes = calls[2].res)

\* Start succeeded, several signals were delivered, Stop ran once and failed
C1_Witness ==
    /\ runPc = "returned"
    /\ StartSucceeded
    /\ sigsSent >= 2
    /\ Cardinality(StopCalls) = 1
    /\ runRes = "errB"

\* the requests this proxy call issued
Issued == SubSeq(cmdLog, proxy.from + 1, Len(cmdLog))

\* C5: Restart issues "service <Name> stop" first; when that fails it
\* returns the failure and issues no start; when it succeeds it issues
\* "service <Name> start" exactly once, after the stop, and returns its
\* outcome.
C5_RestartStopThenStart ==
    proxy.op = "Restart" =>
        /\ Len(Issued) >= 1
        /\ Issued[1].verb = "stop"
        /\ Issued[1].res /= Nil => Len(Issued) = 1 /\ proxy.res = Issued[1].res
        /\ Issued[1].res = Nil =>
              /\ Len(Issued) = 2
              /\ Issued[2].verb = "start"
              /\ proxy.res = Issued[2].res

\* a Restart whose stop request failed, after earlier requests
C5_Witness ==
    /\ proxy.op = "Restart"
    /\ proxy.from > 0
    /\ proxy.res = "errA"
    /\ Len(Issued) = 1


(***************************************************************************)
(* Install and Uninstall.                                                  *)
(***************************************************************************)
Did(step) == step \in Range(last.tr)
LastStep == IF last.tr = <<>> THEN "" ELSE last.tr[Len(last.tr)]
Count(step) == Cardinality({i \in 1..Len(last.tr) : last.tr[i] = step})

\* no start-up library of either kind: determineDistroFlavour ends the process
NoLSBSupport(h) == h.rhFunctions /= "present" /\ h.lsbFunctions = "absent"

\* the runlevel link directory of the manual branch
ManualBase(h) == IF h.rcD = "present" THEN "/etc/rc.d" ELSE "/etc"
ManualLinks(h) == Range(startLinks(ManualBase(h))) \cup Range(stopLinks(ManualBase(h)))

\* C2: from a filesystem with no control script and no link of Name, a
\* successful Install followed by a successful Uninstall leaves the
\* filesystem as it was before the Install, on every host.
C2_InstallUninstallRoundTrip ==
    (last.op = "Uninstall" /\ last.res = Nil /\ cleanInstalled) =>
        /\ last.pre.script.exists
        /\ fs = CleanFS

\* the round trip through the manual links under /etc/rc.d, lsb flavour
C2_Witness ==
    /\ last.op = "Uninstall" /\ last.res = Nil /\ cleanInstalled
    /\ linkTool(host) = "none"
    /\ host.rcD = "present"
    /\ last.pre.script.content.flavour = "lsb"
    /\ last.pre.links = ManualLinks(host)
    /\ Count("Remove link") = 7

\* C3 as stated: an Install that meets an existing control script fails
\* with "already exists" and changes nothing.
C3_AsStated ==
    (last.op = "Install" /\ last.pre.script.exists) =>
        /\ last.res = errAlreadyExists
        /\ fs = last.pre

\* C3: an Install that meets an existing control script changes nothing and
\* fails; the failure is "already exists" unless an earlier step of Install
\* ended the call first: the user-service check, the lookup of the
\* executable path, or flavour detection ending the process.
C3_ExistingScriptUntouched ==
    (last.op = "Install" /\ last.pre.script.exists) =>
        /\ fs = last.pre
        /\ last.res /= Nil
        /\ last.userService => last.res = errNoUserServiceSystemV
        /\ (~last.userService /\ Did("execPath failed")) =>
              last.res = "execPath error"
        /\ (~last.userService /\ Did("execPath") /\ NoLSBSupport(host)) =>
              last.res = Exited
        /\ (~last.userService /\ Did("execPath") /\ ~NoLSBSupport(host)) =>
              last.res = errAlreadyExists /\ LastStep = "Stat confPath"

\* a second Install after one that stopped at chmod: the script is there,
\* not executable, with no link
C3_Witness ==
    /\ last.op = "Install"
    /\ last.res = errAlreadyExists
    /\ last.pre.script.exists
    /\ last.pre.script.mode = "0666"
    /\ last.pre.script.content.flavour = "debian"
    /\ fs = last.pre

\* C4: with the user-service option set, Install and Uninstall return the
\* "not supported" error before any probe, read, write, link operation or
\* external command, whatever the definition and the filesystem.
C4_UserServiceFailsFirst ==
    (last.userService /\ last.op \in {"Install", "Uninstall"}) =>
        /\ last.res = errNoUserServiceSystemV
        /\ last.tr = <<>>
        /\ fs = last.pre

\* an Uninstall with the option set on an installed service: script and
\* links stay
C4_Witness ==
    /\ last.userService
    /\ cfg.Config = HostileDefinition
    /\ last.op = "Uninstall"
    /\ fs.script.exists /\ fs.script.mode = "0755"
    /\ fs.links = ManualLinks(host)
    /\ last.res = errNoUserServiceSystemV

\* C6: determineDistroFlavour answers redhat when the Red-Hat function file
\* is there; otherwise it ends the process when the LSB file is absent;
\* otherwise it answers debian when start-stop-daemon is found and lsb when
\* it is not.
C6_FlavourTable ==
    (last.op = "Install" /\ Did("Stat rhFunctions")) =>
        /\ host.rhFunctions = "present" =>
              last.flavour = "redhat" /\ ~Did("Stat lsbFunctions")
        /\ (host.rhFunctions /= "present" /\ host.lsbFunctions = "absent") =>
              /\ last.res = Exited /\ LastStep = "os.Exit"
              /\ last.flavour = ""
              /\ ~Did("LookPath start-stop-daemon")
        /\ (host.rhFunctions /= "present" /\ host.lsbFunctions /= "absent"
            /\ host.startStopDaemon) => last.flavour = "debian"
        /\ (host.rhFunctions /= "present" /\ host.lsbFunctions /= "absent"
            /\ ~host.startStopDaemon) => last.flavour = "lsb"
        /\ last.flavour \in Flavours \cup {""}
        /\ last.flavour = "" <=> NoLSBSupport(host)

\* both function files unreadable, no start-stop-daemon: lsb
C6_Witness ==
    /\ last.op = "Install"
    /\ host.rhFunctions = "unreadable"
    /\ host.lsbFunctions = "unreadable"
    /\ ~host.startStopDaemon
    /\ last.flavour = "lsb"
    /\ fs.script.content.flavour = "lsb"


\* the values of the definition a site of the given field can carry
FieldValues(c, field) ==
    IF field = "Arguments" THEN Range(c.Arguments)
    ELSE IF field = "WorkingDirectory" THEN {c.WorkingDirectory}
    ELSE IF field = "UserName" THEN {c.UserName}
    ELSE IF field = "ChRoot" THEN {c.ChRoot}
    ELSE {}

QuotedFields == {"Arguments", "WorkingDirectory", "UserName", "ChRoot"}

\* C7: in the rendered control script, for every flavour, every place where
\* an Argument, WorkingDirectory, UserName or ChRoot is interpolated carries
\* the value passed through cmd; none reaches the script text unquoted.
C7_EveryValueQuoted ==
    (fs.script.exists /\ fs.script.content.flavour \in Flavours) =>
        \A i \in 1..Len(fs.script.content.sites) :
            LET site == fs.script.content.sites[i] IN
            site.field \in QuotedFields =>
                \E v \in FieldValues(cfg.Config, site.field) :
                    site.text = cmd(v)

\* the script an Uninstall met was there, and its removal, when tried, worked
RemovalWouldSucceed ==
    last.pre.script.exists /\ ~Did("Remove confPath failed")

\* C8 as stated: after an Uninstall without the user-service option in
\* which removing /etc/init.d/<Name> itself would succeed, the control
\* script no longer exists, whatever the links and the outcome of their
\* removal.
C8_AsStated ==
    (last.op = "Uninstall" /\ ~last.userService /\ RemovalWouldSucceed) =>
        ~fs.script.exists

\* C8: after an Uninstall without the user-service option in which removing
\* /etc/init.d/<Name> itself would succeed, the control script no longer
\* exists when the removal of the links completed without error; when link
\* removal failed or ended the process, the script is left as it was.
C8_ScriptRemovedWhenLinksRemoved ==
    (last.op = "Uninstall" /\ ~last.userService /\ RemovalWouldSucceed) =>
        IF Did("Remove link failed") \/ Did("cmd.Run failed") \/ Did("os.Exit")
        THEN last.res /= Nil /\ fs.script = last.pre.script
        ELSE last.res = Nil /\ ~fs.script.exists

\* a partial link set: the first link is missing, the script stays
C8_Witness ==
    /\ last.op = "Uninstall" /\ ~last.userService
    /\ last.pre.script.exists
    /\ last.pre.links /= {}
    /\ last.res = "Failed to remove startup link"
    /\ fs.script.exists

\* the positions of the link removals in the trace of the call
LinkSteps ==
    {i \in 1..Len(last.tr) :
        last.tr[i] \in {"Remove link", "Remove link failed", "cmd.Run",
                        "cmd.Run failed"}}

ScriptSteps ==
    {i \in 1..Len(last.tr) :
        last.tr[i] \in {"Remove confPath", "Remove confPath failed"}}

\* C9: Uninstall removes the links first and the control script second; the
\* script is removed only after link removal completed successfully; a
\* failure of link removal or of script removal is what Uninstall returns.
C9_LinksThenScript ==
    (last.op = "Uninstall" /\ ~last.userService) =>
        /\ ScriptSteps /= {} =>
              /\ ScriptSteps = {Len(last.tr)}
              /\ LinkSteps /= {}
              /\ \A i \in LinkSteps : i < Len(last.tr)
              /\ ~Did("Remove link failed") /\ ~Did("cmd.Run failed")
              /\ IF linkTool(host) = "none"
                 THEN fs.links \cap ManualLinks(host) = {}
                      /\ Count("Remove link") = 7
                 ELSE fs.links = {}
        /\ fs.script /= last.pre.script =>
              Did("Remove confPath") /\ last.res = Nil
        /\ Did("Remove link failed") =>
              /\ last.res \in {"Failed to remove startup link",
                               "Failed to remove shutdown link"}
              /\ fs.script = last.pre.script
        /\ Did("cmd.Run failed") => last.res = "Failed to run" /\ fs = last.pre
        /\ Did("Remove confPath failed") =>
              last.res = "Remove error" /\ fs.script = last.pre.script
        /\ last.res = Nil =>
              /\ LastStep = "Remove confPath"
              /\ last.pre.script.exists /\ ~fs.script.exists
        /\ last.res = Exited => LinkSteps = {} /\ ScriptSteps = {} /\ fs = last.pre

\* the links went, then the removal of the script failed and was returned
C9_Witness ==
    /\ last.op = "Uninstall" /\ ~last.userService
    /\ last.pre.links = ManualLinks(host)
    /\ fs.links = {}
    /\ last.pre.script.exists
    /\ fs.script.exists
    /\ last.res = "Remove error"

\* C10: Install and Uninstall end the process only when flavour detection
\* finds no LSB support; every other failure of a step is returned as an
\* error, so a call that returns nil has done all its steps.
C10_ExitOnlyWithoutLSB ==
    /\ last.res = Exited =>
          /\ last.op = "Install"
          /\ NoLSBSupport(host)
          /\ ~Did("Create confPath")
    /\ (last.op = "Install" /\ last.res = Nil) =>
          /\ fs.script.exists /\ fs.script.mode = "0755"
          /\ fs.script.content.flavour \in Flavours
          /\ fs.links /= {}

(***************************************************************************)
(* The links of a successful Install.                                      *)
(***************************************************************************)
\* <base>/rc<N>.d/S50<Name> for N in 2..5, <base>/rc<N>.d/K02<Name> for N in
\* 0, 1, 6
ContractLinks(base) ==
    {[dir |-> base, rl |-> n, kind |-> "S", prio |-> "50"] :
        n \in {"2", "3", "4", "5"}}
    \cup {[dir |-> base, rl |-> n, kind |-> "K", prio |-> "02"] :
        n \in {"0", "1", "6"}}

\* the last call was an Install that returned nil through the manual branch
InstalledByHand ==
    /\ last.op = "Install" /\ last.res = Nil
    /\ ~host.chkconfig /\ ~host.updateRcD

\* C11: when Install returns nil through the manual link branch (neither
\* chkconfig nor update-rc.d found), the control script exists with mode
\* 0755 and the links of Name are exactly S50 in runlevels 2, 3, 4, 5 and
\* K02 in runlevels 0, 1, 6 under /etc/rc.d when that directory exists and
\* under /etc otherwise; the call created these seven links and no other.
C11_ManualLinkSet ==
    InstalledByHand =>
        LET base == IF host.rcD = "present" THEN "/etc/rc.d" ELSE "/etc" IN
        /\ fs.script.exists
        /\ fs.script.mode = "0755"
        /\ fs.links = ContractLinks(base)
        /\ fs.links \ last.pre.links = ContractLinks(base)
        /\ Count("Symlink") = 7
        /\ ~Did("cmd.Run")

\* a manual Install under /etc/rc.d on a host that is not Red Hat
C11_Witness ==
    /\ InstalledByHand
    /\ host.rcD = "present"
    /\ host.rhFunctions = "absent"
    /\ Count("Symlink") = 7
    /\ Cardinality(fs.links) = 7

(***************************************************************************)
(* The simpler variant.                                                    *)
(***************************************************************************)
\* C12: in the simpler variant, after an Install and then an Uninstall that
\* both returned nil, none of the links /etc/rc<N>.d/S50<Name> (N in 2..5)
\* and /etc/rc<N>.d/K02<Name> (N in 0, 1, 6) that the Install created is
\* left.
C12_SimpleUninstallRemovesLinks ==
    (last.op = "Uninstall" /\ last.res = Nil /\ cleanInstalled) =>
        fs.links \cap ContractLinks("/etc") = {}

\* C13: in the simpler variant, Install returns nil only if the script was
\* written, its mode set to 0755 and every one of the seven links created;
\* a failed os.Symlink makes Install return an error.
C13_SimpleInstallSurfacesLinkFailure ==
    /\ (last.op = "Install" /\ last.res = Nil) =>
          /\ fs.script.exists
          /\ fs.script.content.flavour \in Flavours
          /\ fs.script.mode = "0755"
          /\ Count("Symlink") = 7
          /\ ContractLinks("/etc") \subseteq fs.links
    /\ (last.op = "Install" /\ Did("Symlink failed")) => last.res /= Nil

(***************************************************************************)
(* Recovery from a partial link set by calling Uninstall again.            *)
(***************************************************************************)
\* the control script is there with some, not all, of the seven links
PartialLinkSet ==
    /\ fs.script.exists
    /\ fs.links /= {}
    /\ fs.links \subseteq ManualLinks(host)
    /\ fs.links /= ManualLinks(host)

\* the caller has begun to call Uninstall again to clean up
Recovering == last.op = "Uninstall again"

\* s.Uninstall() called again on what a failed call left, meeting no failure
\* of its own
UninstallAgain ==
    /\ PartialLinkSet \/ Recovering
    /\ fs /= CleanFS
    /\ LET r == Uninstall(fs, host, cfg, NoFault) IN
       /\ fs' = r.fs
       /\ last' = [op |-> "Uninstall again", userService |-> cfg.UserService,
                   res |-> r.res, tr |-> r.tr, flavour |-> r.flavour,
                   pre |-> fs]
    /\ cleanInstalled' = FALSE
    /\ UNCHANGED <<host, cfg, inst>>
    /\ UNCHANGED runVars
    /\ UNCHANGED proxyVars

InstallFirst == ~PartialLinkSet /\ ~Recovering /\ InstallCall
UninstallFirst == ~PartialLinkSet /\ ~Recovering /\ UninstallCall

\* hosts on which manageSymlinks makes and removes the links itself
ManualHosts ==
    {h \in Hosts : /\ ~h.chkconfig /\ ~h.updateRcD
                   /\ ~NoLSBSupport(h)
                   /\ (h.rcD = "present" \/ h.rc0D = "present")}

InitRecover ==
    /\ host \in ManualHosts
    /\ cfg \in {c \in Configs : ~c.UserService}
    /\ fs = CleanFS
    /\ last = NoCall
    /\ cleanInstalled = FALSE
    /\ inst = NoInstallers
    /\ RunIdle
    /\ ProxyIdle

NextRecover == InstallFirst \/ UninstallFirst \/ UninstallAgain

\* the caller that cleans up keeps calling Uninstall while a call changes
\* anything
FairSpecRecover ==
    InitRecover /\ [][NextRecover]_vars /\ WF_vars(UninstallAgain)

\* C14: with the manual link branch, from every state that a call failing
\* part-way through link creation or removal left (control script present,
\* only some of the seven links present), calling Uninstall again, as often
\* as needed and with no further failure injected, eventually reaches the
\* state with no control script and no link of Name.
C14_PartialLinksRecoverable == PartialLinkSet ~> (fs = CleanFS)

(***************************************************************************)
(* No rollback in Install.                                                 *)
(***************************************************************************)
\* the last call was an Install in which a step after os.Create failed
FailedAfterCreate ==
    /\ last.op = "Install"
    /\ \/ Did("Execute failed") \/ Did("Chmod confPath failed")
       \/ Did("cmd.Run failed") \/ Did("Symlink failed")

\* what such an Install returns and leaves
C15_LeftAsFailed ==
    FailedAfterCreate =>
        /\ last.res \notin {Nil, Exited}
        /\ Did("Create confPath")
        /\ ~last.pre.script.exists
        /\ fs.script.exists
        /\ last.pre.links \subseteq fs.links
        /\ Cardinality(fs.links \ last.pre.links) = Count("Symlink")
        /\ Did("Execute failed") =>
              /\ last.res = "Execute error"
              /\ fs.script.content = EmptyContent
              /\ fs.links = last.pre.links
        /\ Did("Chmod confPath failed") =>
              /\ last.res = "Chmod error"
              /\ fs.script.content.flavour = last.flavour
              /\ fs.script.mode = "0666"
              /\ fs.links = last.pre.links
        /\ Did("cmd.Run failed") =>
              /\ last.res = "Failed to run"
              /\ fs.script.mode = "0755"
              /\ fs.links = last.pre.links
        /\ Did("Symlink failed") =>
              /\ last.res \in {"Failed to create startup link",
                               "Failed to create shutdown link"}
              /\ fs.script.mode = "0755"
              /\ LastStep = "Symlink failed"

\* the step is an Install called right after the last call, with the same
\* option, whose own lookup of the executable path did not fail
InstallRightAfter ==
    /\ last' /= last
    /\ last'.op = "Install"
    /\ last'.userService = last.userService
    /\ last'.pre = fs
    /\ "execPath failed" \notin Range(last'.tr)

\* C15: Install does not roll back.  When a step after the creation of the
\* control script fails (executing the template, chmod, the native link
\* tool, making the k-th link), Install returns that error and leaves the
\* script and every link made so far; an Install that follows immediately
\* fails with "already exists" and changes nothing on the filesystem.
C15_NoRollback ==
    /\ []C15_LeftAsFailed
    /\ [][(FailedAfterCreate /\ InstallRightAfter) =>
            (last'.res = errAlreadyExists /\ fs' = fs)]_vars

\* a second Install met the script and the first three links of an Install
\* that failed at the fourth
C15_Witness ==
    /\ last.op = "Install"
    /\ last.res = errAlreadyExists
    /\ last.pre.script.mode = "0755"
    /\ Cardinality(last.pre.links) = 3
    /\ fs = last.pre

(***************************************************************************)
(* The method manageSymlinks picks.                                        *)
(***************************************************************************)
UsedChkconfig == Did("Command chkconfig")
UsedUpdateRcD == Did("Command update-rc.d")
UsedDirectLinks ==
    \/ Did("Symlink") \/ Did("Symlink failed")
    \/ Did("Remove link") \/ Did("Remove link failed")

\* the number of methods the call used
MethodsUsed ==
    Cardinality({m \in {"chkconfig", "update-rc.d", "direct"} :
                    \/ m = "chkconfig" /\ UsedChkconfig
                    \/ m = "update-rc.d" /\ UsedUpdateRcD
                    \/ m = "direct" /\ UsedDirectLinks})

\* C16: a call of manageSymlinks uses one method only; it makes or removes
\* the links itself only when neither chkconfig nor update-rc.d is found on
\* the search path; and the native tool an Install uses is the one of the
\* flavour it detected: chkconfig on a redhat host, update-rc.d on a debian
\* or lsb host, whatever tools are there.
C16_ToolFitsFlavour ==
    /\ MethodsUsed <= 1
    /\ UsedDirectLinks => ~host.chkconfig /\ ~host.updateRcD
    /\ (last.op = "Install" /\ UsedChkconfig) => last.flavour = "redhat"
    /\ (last.op = "Install" /\ UsedUpdateRcD) =>
          last.flavour \in {"debian", "lsb"}

(***************************************************************************)
(* Links and the script they point to.                                     *)
(***************************************************************************)
\* C17: with the manual link branch, after any sequence of Install and
\* Uninstall calls, failing ones included, a runlevel link S50<Name> or
\* K02<Name> exists only while the control script /etc/init.d/<Name> does.
C17_NoDanglingLink ==
    (~host.chkconfig /\ ~host.updateRcD) =>
        (fs.links /= {} => fs.script.exists)

\* an Uninstall that failed part-way through the shutdown links, after a
\* clean Install: links are left and so is the script
C17_Witness ==
    /\ ~host.chkconfig /\ ~host.updateRcD
    /\ cleanInstalled
    /\ last.op = "Uninstall"
    /\ last.res = "Failed to remove shutdown link"
    /\ fs.links /= {}
    /\ fs.script.exists

(***************************************************************************)
(* The signal channel of Run.                                              *)
(***************************************************************************)
C18_Buffer ==
    /\ notified => StartSucceeded
    /\ ~notified => sigsSent = 0 /\ sigChan = <<>>
    /\ Len(sigChan) <= 3
    /\ (sigsSent > 0 /\ received = <<>>) => sigChan /= <<>>
    /\ Len(received) <= 1
    /\ Cardinality(StopCalls) <= 1
    /\ StopCalls /= {} => Len(received) = 1

\* a delivered signal is queued while there is room and changes nothing
\* otherwise; the signal at the head of the channel stays there until Run
\* takes it
C18_Step ==
    /\ sigsSent' = sigsSent + 1 =>
          /\ IF Len(sigChan) < 3
             THEN \E sig \in Signals : sigChan' = Append(sigChan, sig)
             ELSE sigChan' = sigChan
          /\ UNCHANGED <<runPc, calls, received, runRes>>
    /\ (sigChan /= <<>> /\ received = <<>>) =>
          \/ sigChan' /= <<>> /\ Head(sigChan') = Head(sigChan)
             /\ received' = <<>>
          \/ received' = <<Head(sigChan)>> /\ sigChan' = Tail(sigChan)

\* C18: Run registers a channel of capacity 3 for SIGTERM and interrupt
\* after Start succeeded; the first signal delivered after that is never
\* dropped, however many more arrive and however they interleave with the
\* receive of Run, and it makes Run go on to Stop; further signals never
\* cause a second call of Stop.
C18_FirstSignalKept ==
    /\ []C18_Buffer
    /\ [][C18_Step]_vars
    /\ (sigsSent > 0) ~> (Len(received) = 1 /\ Cardinality(StopCalls) = 1)

\* four signals: one taken by Run, two left in the channel, one dropped,
\* Stop called once
C18_Witness ==
    /\ sigsSent = 4
    /\ Len(received) = 1
    /\ Len(sigChan) = 2
    /\ runPc = "returned"
    /\ Cardinality(StopCalls) = 1

(***************************************************************************)
(* A host without LSB support.                                             *)
(***************************************************************************)
\* the steps of Install that change the filesystem
MutatingSteps ==
    {"Create confPath", "Execute", "Execute failed", "Chmod confPath",
     "Symlink", "cmd.Run", "Remove link", "Remove confPath"}

\* C19: on a host where the Red-Hat function file is not found and the LSB
\* function file is absent, Install ends the process before it changes
\* anything: no control script is created, no mode is changed, no link is
\* made, because the flavour is detected before the script file is created.
\* (An Install that the user-service check or a failed lookup of the
\* executable path ends even earlier returns that error, also with nothing
\* changed.)
C19_NoLSBExitsBeforeMutation ==
    (last.op = "Install" /\ host.rhFunctions /= "present"
     /\ host.lsbFunctions = "absent") =>
        /\ fs = last.pre
        /\ Range(last.tr) \cap MutatingSteps = {}
        /\ ~Did("Stat confPath")
        /\ last.res /= Nil
        /\ (~last.userService /\ ~Did("execPath failed")) =>
              /\ last.res = Exited
              /\ last.tr = <<"execPath", "Stat rhFunctions",
                             "Stat lsbFunctions", "os.Exit">>

\* Install of the definition with every field set ended the process on a
\* host with neither function file, on a filesystem with no script
C19_Witness ==
    /\ last.op = "Install"
    /\ host.rhFunctions = "absent" /\ host.lsbFunctions = "absent"
    /\ cfg.Config = HostileDefinition
    /\ last.res = Exited
    /\ last.pre = CleanFS
    /\ fs = CleanFS

(***************************************************************************)
(* Two Install calls at the same time.                                     *)
(***************************************************************************)
Finished(p) == inst[p].pc = "done"

\* C20: when two Install calls for the same Name run at the same time from
\* a state with no control script, at most one of them writes the script
\* and returns nil; the other fails with "already exists" and leaves the
\* script of the first as it is.
C20_NoSilentOverwrite ==
    /\ Cardinality({p \in Procs : inst[p].created}) <= 1
    /\ \A p, q \in Procs :
          (p /= q /\ Finished(p) /\ Finished(q)) =>
              /\ ~(inst[p].res = Nil /\ inst[q].res = Nil)
              /\ inst[p].created => inst[q].res = errAlreadyExists

====
